---- MODULE Spec2Model ----
(***************************************************************************)
(* Allure report parser exporting Prometheus metrics.                      *)
(*                                                                         *)
(* The model follows the current variant of the program: a worker          *)
(* goroutine (runParser) that runs parseAllureReports once and then on     *)
(* every ticker receive, the metrics registry it writes family by family,  *)
(* and the two HTTP handlers (/metrics scrape and /health) that read the   *)
(* shared state concurrently.  Every write to the registry is one step of  *)
(* the worker, because each Reset / Set / Inc takes the registry's lock on *)
(* its own and nothing else guards the sequence.                           *)
(***************************************************************************)
EXTENDS Integers, Sequences, FiniteSets, TLC

VARIABLES
    dir,            \* the report directory: environment, summary, history, test-case files
    path,           \* os.Args[1], the root path handed to runParser
    sink,           \* the metrics registry: one field per metric family
    lastParseTime,  \* global lastParseTime
    now,            \* the wall clock, in ticker periods
    schedPc,        \* runParser's position
    tickerOn,       \* the ticker of runParser exists
    tickerC,        \* ticks buffered in ticker.C (capacity 1)
    inFlight,       \* invocations of parseAllureReports that have not returned
    pc,             \* parseAllureReports' position
    loc,            \* parseAllureReports' locals
    resp,           \* the last answer of healthCheck
    scraped,        \* the registry contents the last /metrics scrape returned
    hist            \* history of the run (observations only, never read by the program)

vars == <<dir, path, sink, lastParseTime, now, schedPc, tickerOn, tickerC,
          inFlight, pc, loc, resp, scraped, hist>>

fsVars == <<dir, path>>
schedVars == <<schedPc, tickerOn, tickerC>>
readerVars == <<resp, scraped>>

-----------------------------------------------------------------------------
(* Bounds of the model *)

\* largest count in a drawn summary.json
MaxCount == 1
\* the clock stops this many ticker periods after process start
MaxElapsed == 12
\* longest label list of a drawn test case
MaxLabels == 2
\* longest drawn history trend
MaxHistory == 2

-----------------------------------------------------------------------------
(* Values of gauges: float64 values are kept as reduced fractions <<n, d>> *)

RECURSIVE GCD(_, _)
GCD(a, b) == IF b = 0 THEN a ELSE GCD(b, a % b)

Abs(x) == IF x < 0 THEN -x ELSE x

\* float64(n) / float64(d), d > 0
Rat(n, d) == LET g == GCD(Abs(n), d) IN <<n \div g, d \div g>>

\* float64(n)
Float(n) == Rat(n, 1)

RatAdd(a, b) == Rat(a[1] * b[2] + b[1] * a[2], a[2] * b[2])

-----------------------------------------------------------------------------
(* The metrics registry *)

\* a GaugeVec with no label combination
EmptyVec == [x \in {} |-> Float(0)]

\* GaugeVec.WithLabelValues(key...).Set(v)
SetVec(vec, key, v) == [x \in (DOMAIN vec) \cup {key} |-> IF x = key THEN v ELSE vec[x]]

\* GaugeVec.WithLabelValues(key...).Inc(): a new child starts at 0
IncVec(vec, key) ==
    SetVec(vec, key, RatAdd(IF key \in DOMAIN vec THEN vec[key] ELSE Float(0), Float(1)))

\* the registry right after init(): vectors without children, plain gauges at 0
EmptySink ==
    [testsTotal      |-> EmptyVec,
     suiteDuration   |-> Float(0),
     testDuration    |-> EmptyVec,
     testStatus      |-> EmptyVec,
     flakyRatio      |-> Float(0),
     environmentInfo |-> EmptyVec,
     historyTrend    |-> EmptyVec,
     testsByLabel    |-> EmptyVec,
     stepsTotal      |-> EmptyVec]

\* resetMetrics resets these families, in this order
ResetOrder ==
    <<"testsTotal", "testDuration", "testStatus", "environmentInfo",
      "historyTrend", "testsByLabel", "stepsTotal">>

-----------------------------------------------------------------------------
(* Strings *)

\* strings.ToLower over the label names the model uses
ToLower(s) ==
    CASE s = "Severity" -> "severity"
      [] s = "SEVERITY" -> "severity"
      [] s = "Suite"    -> "suite"
      [] s = "Epic"     -> "epic"
      [] s = "Passed"   -> "passed"
      [] s = "PASSED"   -> "passed"
      [] OTHER          -> s

\* strings.EqualFold
EqualFold(a, b) == ToLower(a) = ToLower(b)

\* an allow-list that also lets suite through
isUsefulLabelWithSuite(name) ==
    ToLower(name) \in {"epic", "feature", "story", "severity", "owner", "layer", "suite"}

\* isUsefulLabel
UsefulLabels == {"epic", "feature", "story", "severity", "owner", "layer"}
isUsefulLabel(name) == ToLower(name) \in UsefulLabels

\* getLabelValue comparing names with ==
RECURSIVE getLabelValueExact(_, _)
getLabelValueExact(labels, name) ==
    IF labels = <<>> THEN "unknown"
    ELSE IF Head(labels).name = name THEN Head(labels).value
    ELSE getLabelValueExact(Tail(labels), name)

\* getLabelValue: the first label whose name matches, "unknown" if none does
RECURSIVE getLabelValue(_, _)
getLabelValue(labels, name) ==
    IF labels = <<>> THEN "unknown"
    ELSE IF EqualFold(Head(labels).name, name) THEN Head(labels).value
    ELSE getLabelValue(Tail(labels), name)

-----------------------------------------------------------------------------
(* Files *)

Missing == [kind |-> "missing"]
Malformed == [kind |-> "malformed"]
Ok(d) == [kind |-> "ok", data |-> d]

\* ioutil.ReadFile followed by json.Unmarshal: an error unless the file is
\* there and decodes
ReadFails(f) == f.kind # "ok"

\* names of the files data/test-cases can hold, in the order Glob returns them
FileNames == <<"a.json", "b.json">>

\* filepath.Glob(path/data/test-cases/*.json): the pattern is malformed when
\* the root path holds an unclosed bracket; otherwise the matching names, sorted
GlobFails(p) == p = "results["

Glob(tests) == SelectSeq(FileNames, LAMBDA n : tests[n].kind # "missing")

Label(n, v) == [name |-> n, value |-> v]
Step(n, s) == [name |-> n, status |-> s]
TestCase(n, st, a, b, ls, ss) ==
    [name |-> n, status |-> st, start |-> a, stop |-> b, labels |-> ls, steps |-> ss]
Summary(p, f, b, s, d) ==
    [passed |-> p, failed |-> f, broken |-> b, skipped |-> s, duration |-> d]

NominalSummary == Summary(2, 1, 0, 1, 1500)
NominalEnv == [browser |-> "chrome"]
NominalHistory == <<2, 0, 1>>
NominalTest ==
    TestCase("login", "passed", 1000, 13500,
             <<Label("suite", "auth"), Label("Severity", "critical")>>,
             <<Step("open", "passed"), Step("submit", "failed")>>)
OtherTest ==
    TestCase("logout", "failed", 2000, 2500,
             <<Label("epic", "auth")>>,
             <<Step("click", "passed")>>)

NoTests == [n \in {FileNames[i] : i \in 1..Len(FileNames)} |-> Missing]

NominalDir ==
    [env     |-> Ok(NominalEnv),
     summary |-> Ok(NominalSummary),
     history |-> Ok(NominalHistory),
     tests   |-> [NoTests EXCEPT !["a.json"] = Ok(NominalTest), !["b.json"] = Ok(OtherTest)]]

-----------------------------------------------------------------------------
(* Initial state *)

NoTestCase == TestCase("", "", 0, 0, <<>>, <<>>)

\* a nil *AllureSummary
Nil == [kind |-> "nil"]

\* the locals of parseAllureReports and of the functions it calls, at entry
InitLoc ==
    [k             |-> 0,
     envTodo       |-> {},
     env           |-> <<>>,
     summary       |-> Nil,
     history       |-> <<>>,
     failedCount   |-> 0,
     testFiles     |-> <<>>,
     tc            |-> NoTestCase,
     stepsByStatus |-> <<>>,
     stepsTodo     |-> {},
     j             |-> 0,
     err           |-> FALSE]

\* nothing observed yet
InitHist ==
    [atStart       |-> EmptySink,   \* the registry when the current (or last) cycle began
     published     |-> EmptySink,   \* the registry when the last successful cycle ended
     everSucceeded |-> FALSE,       \* some cycle has returned nil
     everStarted   |-> FALSE,       \* some cycle has begun
     lastAborted   |-> FALSE,       \* the last cycle to return returned an error
     loaded        |-> <<>>,        \* the test cases the current (or last) cycle decoded
     prevFiles     |-> {},          \* the files the cycle before decoded
     curFiles      |-> {},          \* the files the current (or last) cycle decoded
     scrapePrev    |-> EmptySink,   \* hist.published when the last scrape happened
     scrapePc      |-> "idle",      \* the worker's position when the last scrape happened
     sawEnv        |-> "unread",    \* what the cycle found in environment.json
     sawHistory    |-> "unread"]    \* what the cycle found in history-trend.json

\* time.Time{}: the zero value of lastParseTime
ZeroTime == 0

\* 5*time.Minute, in ticker periods of 30 seconds
StaleThreshold == 10

\* the process starts more than five minutes after the zero time
ProcessStart == StaleThreshold + 1

\* healthCheck's answers
StatusOK == 200
StatusServiceUnavailable == 503
InitResp == [code |-> 0, body |-> "", n |-> 0]

Paths == {"results", "results["}

\* runParser that creates the ticker first and waits for it
StartPcTicker == "newTicker"

\* runParser starts with the first call of parseAllureReports
StartPc == "initial"

InitWith(d, p) ==
    /\ dir = d
    /\ path = p
    /\ sink = EmptySink
    /\ lastParseTime = ZeroTime
    /\ now = ProcessStart
    /\ schedPc = StartPc
    /\ tickerOn = FALSE
    /\ tickerC = 0
    /\ inFlight = 0
    /\ pc = "idle"
    /\ loc = InitLoc
    /\ resp = InitResp
    /\ scraped = EmptySink
    /\ hist = InitHist

Init == \E p \in Paths : InitWith(NominalDir, p)

-----------------------------------------------------------------------------
(* runParser *)

\* the periodic call made with a go statement: runParser goes back to the ticker
InCallAsync(site) == IF site = "periodicParse" THEN "waiting" ELSE site

\* where runParser stands while a call it made at `site` runs: a plain call,
\* so it stays at the call site until parseAllureReports returns
InCall(site) == site

\* entry of parseAllureReports: startTime := time.Now(), the deferred function
\* is registered, the locals are fresh
Enter ==
    /\ inFlight' = inFlight + 1
    /\ pc' = "reset"
    /\ loc' = [InitLoc EXCEPT !.k = 1]
    /\ hist' = [hist EXCEPT !.atStart = sink, !.everStarted = TRUE,
                            !.loaded = <<>>, !.prevFiles = hist.curFiles,
                            !.curFiles = {}, !.sawEnv = "unread",
                            !.sawHistory = "unread"]

\* line 194: the first call, before the ticker exists
InitialParse ==
    /\ schedPc = "initial"
    /\ schedPc' = InCall("initialParse")
    /\ Enter
    /\ UNCHANGED <<fsVars, sink, lastParseTime, now, tickerOn, tickerC, readerVars>>

\* line 199: time.NewTicker(30 * time.Second)
NewTicker ==
    /\ schedPc = "newTicker"
    /\ schedPc' = "waiting"
    /\ tickerOn' = TRUE
    /\ UNCHANGED <<fsVars, sink, lastParseTime, now, tickerC, inFlight, pc, loc,
                   readerVars, hist>>

\* line 202-203: a receive from ticker.C, then the call
TickerReceive ==
    /\ schedPc = "waiting"
    /\ tickerC = 1
    /\ tickerC' = 0
    /\ schedPc' = InCall("periodicParse")
    /\ Enter
    /\ UNCHANGED <<fsVars, sink, lastParseTime, now, tickerOn, readerVars>>

\* the runtime delivers a tick: ticker.C holds one tick, further ticks are dropped
TickerFire ==
    /\ tickerOn
    /\ tickerC = 0
    /\ tickerC' = 1
    /\ UNCHANGED <<fsVars, sink, lastParseTime, now, schedPc, tickerOn, inFlight,
                   pc, loc, readerVars, hist>>

-----------------------------------------------------------------------------
(* parseAllureReports *)

\* a step of the cycle that touches only its position, its locals and the registry
CycleFrame == UNCHANGED <<fsVars, lastParseTime, now, schedVars, inFlight, readerVars, hist>>

\* the same, for a step that is also observed
ObservedFrame == UNCHANGED <<fsVars, lastParseTime, now, schedVars, inFlight, readerVars>>

\* resetMetrics that forgets testDuration.Reset()
ResetFamilySkipping(s, i) ==
    IF ResetOrder[i] = "testDuration" THEN s ELSE [s EXCEPT ![ResetOrder[i]] = EmptyVec]

\* resetMetrics that forgets testsByLabel.Reset()
ResetFamilySkippingTags(s, i) ==
    IF ResetOrder[i] = "testsByLabel" THEN s ELSE [s EXCEPT ![ResetOrder[i]] = EmptyVec]

\* resetMetrics: one Reset() per family, in the order of the source
\* resetMetrics without line 263: environmentInfo keeps its entries
ResetFamilySkippingEnv(s, i) ==
    IF ResetOrder[i] = "environmentInfo" THEN s ELSE [s EXCEPT ![ResetOrder[i]] = EmptyVec]

ResetFamily(s, i) == [s EXCEPT ![ResetOrder[i]] = EmptyVec]

ResetMetrics ==
    /\ pc = "reset"
    /\ sink' = ResetFamily(sink, loc.k)
    /\ IF loc.k < Len(ResetOrder)
         THEN /\ loc' = [loc EXCEPT !.k = loc.k + 1]
              /\ pc' = "reset"
         ELSE /\ loc' = [loc EXCEPT !.k = 0]
              /\ pc' = "env"
    /\ CycleFrame

\* parseEnvironment, lines 271-279: read and decode; a failure is logged by
\* the caller (line 222) and the cycle goes on
ParseEnvironment ==
    /\ pc = "env"
    /\ IF ReadFails(dir.env)
         THEN /\ pc' = "summary"
              /\ loc' = loc
              /\ hist' = [hist EXCEPT !.sawEnv = "absent"]
         ELSE /\ pc' = "envSet"
              /\ loc' = [loc EXCEPT !.env = dir.env.data, !.envTodo = DOMAIN dir.env.data]
              /\ hist' = [hist EXCEPT !.sawEnv = "present"]
    /\ sink' = sink
    /\ ObservedFrame

\* parseEnvironment, lines 281-283: one Set per entry, in the map's iteration order
EnvSet ==
    /\ pc = "envSet"
    /\ IF loc.envTodo = {}
         THEN /\ pc' = "summary"
              /\ loc' = [loc EXCEPT !.env = <<>>]
              /\ sink' = sink
         ELSE \E key \in loc.envTodo :
              /\ sink' = [sink EXCEPT !.environmentInfo =
                             SetVec(@, <<key, loc.env[key]>>, Float(1))]
              /\ loc' = [loc EXCEPT !.envTodo = @ \ {key}]
              /\ pc' = "envSet"
    /\ CycleFrame

\* parseSummary and lines 226-229: a failure returns from parseAllureReports
ParseSummary ==
    /\ pc = "summary"
    /\ IF ReadFails(dir.summary)
         THEN /\ pc' = "defer"
              /\ loc' = [loc EXCEPT !.err = TRUE]
         ELSE /\ pc' = "sumSet"
              /\ loc' = [loc EXCEPT !.summary = Ok(dir.summary.data), !.k = 1]
    /\ sink' = sink
    /\ CycleFrame

\* updateSummaryMetrics with the failed and broken counts exchanged
SummaryWriteSwapped(s, summary, i) ==
    CASE i = 1 -> [s EXCEPT !.testsTotal = SetVec(@, <<"passed">>, Float(summary.passed))]
      [] i = 2 -> [s EXCEPT !.testsTotal = SetVec(@, <<"failed">>, Float(summary.broken))]
      [] i = 3 -> [s EXCEPT !.testsTotal = SetVec(@, <<"broken">>, Float(summary.failed))]
      [] i = 4 -> [s EXCEPT !.testsTotal = SetVec(@, <<"skipped">>, Float(summary.skipped))]
      [] OTHER -> [s EXCEPT !.suiteDuration = Rat(summary.duration, 1000)]

\* updateSummaryMetrics: its i-th write, i in 1..5
SummaryWrite(s, summary, i) ==
    CASE i = 1 -> [s EXCEPT !.testsTotal = SetVec(@, <<"passed">>, Float(summary.passed))]
      [] i = 2 -> [s EXCEPT !.testsTotal = SetVec(@, <<"failed">>, Float(summary.failed))]
      [] i = 3 -> [s EXCEPT !.testsTotal = SetVec(@, <<"broken">>, Float(summary.broken))]
      [] i = 4 -> [s EXCEPT !.testsTotal = SetVec(@, <<"skipped">>, Float(summary.skipped))]
      [] OTHER -> [s EXCEPT !.suiteDuration = Rat(summary.duration, 1000)]

SummaryWrites == 5

UpdateSummaryMetrics ==
    /\ pc = "sumSet"
    /\ sink' = SummaryWrite(sink, loc.summary.data, loc.k)
    /\ IF loc.k < SummaryWrites
         THEN /\ loc' = [loc EXCEPT !.k = loc.k + 1]
              /\ pc' = "sumSet"
         ELSE /\ loc' = [loc EXCEPT !.k = 0]
              /\ pc' = "history"
    /\ CycleFrame

\* updateHistoryMetrics without the guard of line 340: an empty history sets
\* the ratio to 0
ParseHistoryTrendZero ==
    /\ pc = "history"
    /\ IF ReadFails(dir.history)
         THEN /\ pc' = "glob"
              /\ loc' = loc
              /\ sink' = sink
              /\ hist' = [hist EXCEPT !.sawHistory = "absent"]
         ELSE IF Len(dir.history.data) = 0
         THEN /\ pc' = "glob"
              /\ loc' = loc
              /\ sink' = [sink EXCEPT !.flakyRatio = Float(0)]
              /\ hist' = [hist EXCEPT !.sawHistory = "absent"]
         ELSE /\ pc' = "histSet"
              /\ loc' = [loc EXCEPT !.history = dir.history.data, !.k = 0,
                                    !.failedCount = 0]
              /\ sink' = sink
              /\ hist' = [hist EXCEPT !.sawHistory = "present"]
    /\ UNCHANGED <<fsVars, lastParseTime, now, schedVars, inFlight, readerVars>>

\* parseHistoryTrend and lines 233-237, then the guard of updateHistoryMetrics
\* (line 340): nothing is written for an empty or unreadable history
ParseHistoryTrend ==
    /\ pc = "history"
    /\ IF ReadFails(dir.history) \/ Len(dir.history.data) = 0
         THEN /\ pc' = "glob"
              /\ loc' = loc
              /\ hist' = [hist EXCEPT !.sawHistory = "absent"]
         ELSE /\ pc' = "histSet"
              /\ loc' = [loc EXCEPT !.history = dir.history.data, !.k = 0,
                                    !.failedCount = 0]
              /\ hist' = [hist EXCEPT !.sawHistory = "present"]
    /\ sink' = sink
    /\ ObservedFrame

\* build identifiers counted from 1
BuildLabelOneBased(i) == "build_" \o ToString(i + 1)

\* fmt.Sprintf("build_%d", i)
BuildLabel(i) == "build_" \o ToString(i)

\* updateHistoryMetrics, lines 345-353: one Set per item, then the ratio
UpdateHistoryMetrics ==
    /\ pc = "histSet"
    /\ IF loc.k < Len(loc.history)
         THEN LET failed == loc.history[loc.k + 1] IN
              /\ sink' = [sink EXCEPT !.historyTrend =
                             SetVec(@, <<BuildLabel(loc.k)>>, Float(failed))]
              /\ loc' = [loc EXCEPT !.k = loc.k + 1,
                                    !.failedCount = IF failed > 0 THEN @ + 1 ELSE @]
              /\ pc' = "histSet"
         ELSE /\ sink' = [sink EXCEPT !.flakyRatio = Rat(loc.failedCount, Len(loc.history))]
              /\ loc' = [loc EXCEPT !.k = 0, !.history = <<>>, !.failedCount = 0]
              /\ pc' = "glob"
    /\ CycleFrame

\* lines 240-243: the enumeration; a malformed pattern returns from
\* parseAllureReports
GlobTestCases ==
    /\ pc = "glob"
    /\ IF GlobFails(path)
         THEN /\ pc' = "defer"
              /\ loc' = [loc EXCEPT !.err = TRUE]
         ELSE /\ pc' = "tcRead"
              /\ loc' = [loc EXCEPT !.testFiles = Glob(dir.tests), !.k = 1]
    /\ sink' = sink
    /\ CycleFrame

\* the loop of line 245 without the continue of line 251: the zero test case of
\* a file that failed to load goes through updateTestCaseMetrics
ParseTestCaseNoContinue ==
    /\ pc = "tcRead"
    /\ IF loc.k > Len(loc.testFiles)
         THEN /\ pc' = "defer"
              /\ loc' = loc
              /\ hist' = hist
         ELSE LET name == loc.testFiles[loc.k] IN
              IF ReadFails(dir.tests[name])
                THEN /\ pc' = "tcDuration"
                     /\ loc' = [loc EXCEPT !.tc = NoTestCase]
                     /\ hist' = hist
                ELSE /\ pc' = "tcDuration"
                     /\ loc' = [loc EXCEPT !.tc = dir.tests[name].data]
                     /\ hist' = [hist EXCEPT !.loaded = Append(@, dir.tests[name].data),
                                             !.curFiles = @ \cup {name}]
    /\ sink' = sink
    /\ UNCHANGED <<fsVars, lastParseTime, now, schedVars, inFlight, readerVars>>

\* lines 245-252 and 256: the loop over testFiles; a file that fails to load is
\* skipped, the end of the list returns nil
ParseTestCase ==
    /\ pc = "tcRead"
    /\ IF loc.k > Len(loc.testFiles)
         THEN /\ pc' = "defer"
              /\ loc' = loc
              /\ hist' = hist
         ELSE LET name == loc.testFiles[loc.k] IN
              IF ReadFails(dir.tests[name])
                THEN /\ pc' = "tcRead"
                     /\ loc' = [loc EXCEPT !.k = loc.k + 1]
                     /\ hist' = hist
                ELSE /\ pc' = "tcDuration"
                     /\ loc' = [loc EXCEPT !.tc = dir.tests[name].data]
                     /\ hist' = [hist EXCEPT !.loaded = Append(@, dir.tests[name].data),
                                             !.curFiles = @ \cup {name}]
    /\ sink' = sink
    /\ UNCHANGED <<fsVars, lastParseTime, now, schedVars, inFlight, readerVars>>

\* updateTestCaseMetrics, line 358: float64(tc.Stop-tc.Start) / 1000
Duration(tc) == Rat(tc.stop - tc.start, 1000)

\* line 359 with Add in place of Set: a second test case with the same name and
\* suite adds its duration to the first one's
TestDurationAdd ==
    /\ pc = "tcDuration"
    /\ LET key == <<loc.tc.name, getLabelValue(loc.tc.labels, "suite")>>
           old == IF key \in DOMAIN sink.testDuration THEN sink.testDuration[key] ELSE Float(0)
       IN  sink' = [sink EXCEPT !.testDuration = SetVec(@, key, RatAdd(old, Duration(loc.tc)))]
    /\ pc' = "tcStatus"
    /\ loc' = loc
    /\ CycleFrame

\* updateTestCaseMetrics, lines 358-359
TestDuration ==
    /\ pc = "tcDuration"
    /\ sink' = [sink EXCEPT !.testDuration =
                   SetVec(@, <<loc.tc.name, getLabelValue(loc.tc.labels, "suite")>>,
                          Duration(loc.tc))]
    /\ pc' = "tcStatus"
    /\ loc' = loc
    /\ CycleFrame

\* a status comparison that ignores letter case
StatusValueFold(status) == IF EqualFold(status, "passed") THEN Float(1) ELSE Float(0)

\* updateTestCaseMetrics, lines 362-365
StatusValue(status) == IF status = "passed" THEN Float(1) ELSE Float(0)

\* updateTestCaseMetrics, lines 373-376: the steps counted by status
StepStatuses(steps) == {steps[i].status : i \in 1..Len(steps)}
StepsByStatus(steps) ==
    [st \in StepStatuses(steps) |->
        Cardinality({i \in 1..Len(steps) : steps[i].status = st})]

\* updateTestCaseMetrics, lines 366-376
TestStatus ==
    /\ pc = "tcStatus"
    /\ sink' = [sink EXCEPT !.testStatus =
                   SetVec(@, <<loc.tc.name, loc.tc.status,
                               getLabelValue(loc.tc.labels, "severity")>>,
                          StatusValue(loc.tc.status))]
    /\ pc' = "tcSteps"
    /\ loc' = [loc EXCEPT !.stepsByStatus = StepsByStatus(loc.tc.steps),
                          !.stepsTodo = StepStatuses(loc.tc.steps)]
    /\ CycleFrame

\* updateTestCaseMetrics, lines 377-379: one Set per status, in the map's
\* iteration order
TestSteps ==
    /\ pc = "tcSteps"
    /\ IF loc.stepsTodo = {}
         THEN /\ pc' = "tcLabels"
              /\ loc' = [loc EXCEPT !.j = 1, !.stepsByStatus = <<>>]
              /\ sink' = sink
         ELSE \E st \in loc.stepsTodo :
              /\ sink' = [sink EXCEPT !.stepsTotal =
                             SetVec(@, <<loc.tc.name, st>>, Float(loc.stepsByStatus[st]))]
              /\ loc' = [loc EXCEPT !.stepsTodo = @ \ {st}]
              /\ pc' = "tcSteps"
    /\ CycleFrame

\* updateTestCaseMetrics, line 384: the label combination a useful label counts under
LabelKey(label) == <<label.name, label.value>>

\* updateTestCaseMetrics, lines 382-386, then back to the loop of line 245
TestLabels ==
    /\ pc = "tcLabels"
    /\ IF loc.j > Len(loc.tc.labels)
         THEN /\ pc' = "tcRead"
              /\ loc' = [loc EXCEPT !.j = 0, !.tc = NoTestCase, !.k = loc.k + 1]
              /\ sink' = sink
         ELSE LET label == loc.tc.labels[loc.j] IN
              /\ sink' = IF isUsefulLabel(label.name)
                           THEN [sink EXCEPT !.testsByLabel = IncVec(@, LabelKey(label))]
                           ELSE sink
              /\ loc' = [loc EXCEPT !.j = loc.j + 1]
              /\ pc' = "tcLabels"
    /\ CycleFrame

\* where runParser goes on when the call it made returns
\* runParser with a single receive in place of the loop of line 202: it returns,
\* and the deferred ticker.Stop() runs, after the first periodic call
ReturnToOnce(site) ==
    CASE site = "initialParse"  -> "newTicker"
      [] site = "periodicParse" -> "returned"
      [] OTHER                  -> site

ReturnTo(site) ==
    CASE site = "initialParse"  -> "newTicker"
      [] site = "periodicParse" -> "waiting"
      [] OTHER                  -> site

\* lines 211-215: the deferred function runs on every return, then the caller
\* logs the error if there is one (lines 195, 204)
ParseReturn ==
    /\ pc = "defer"
    /\ lastParseTime' = now
    /\ inFlight' = inFlight - 1
    /\ pc' = "idle"
    /\ loc' = InitLoc
    /\ schedPc' = ReturnTo(schedPc)
    /\ hist' = [hist EXCEPT !.everSucceeded = @ \/ ~loc.err,
                            !.lastAborted = loc.err,
                            !.published = IF loc.err THEN @ ELSE sink]
    /\ UNCHANGED <<fsVars, sink, now, tickerOn, tickerC, readerVars>>

\* the worker goroutine
Worker ==
    \/ InitialParse
    \/ NewTicker
    \/ TickerReceive
    \/ ResetMetrics
    \/ ParseEnvironment
    \/ EnvSet
    \/ ParseSummary
    \/ UpdateSummaryMetrics
    \/ ParseHistoryTrend
    \/ UpdateHistoryMetrics
    \/ GlobTestCases
    \/ ParseTestCase
    \/ TestDuration
    \/ TestStatus
    \/ TestSteps
    \/ TestLabels
    \/ ParseReturn

-----------------------------------------------------------------------------
(* The report directory changes under the program *)

EnvFrame == UNCHANGED <<path, sink, lastParseTime, now, schedVars, inFlight, pc, loc,
                        readerVars, hist>>

SummaryFiles == {Missing, Malformed, Ok(NominalSummary)}

\* summary.json is written, replaced, corrupted or deleted
WriteSummary ==
    /\ \E f \in SummaryFiles : dir' = [dir EXCEPT !.summary = f]
    /\ dir' # dir
    /\ EnvFrame

\* what a test-case file can become: each name has one decodable content
TestFiles(name) == {Missing, Malformed, NominalDir.tests[name]}

\* a file of data/test-cases is written, corrupted or deleted
WriteTestCase ==
    /\ \E i \in 1..Len(FileNames) : \E f \in TestFiles(FileNames[i]) :
          dir' = [dir EXCEPT !.tests[FileNames[i]] = f]
    /\ dir' # dir
    /\ EnvFrame

\* environment.json is written, corrupted or deleted
EnvFiles == {Missing, Malformed, Ok(NominalEnv)}

WriteEnvironment ==
    /\ \E f \in EnvFiles : dir' = [dir EXCEPT !.env = f]
    /\ dir' # dir
    /\ EnvFrame

\* history-trend.json is written, emptied, corrupted or deleted
HistoryFiles == {Missing, Malformed, Ok(<<>>), Ok(NominalHistory)}

WriteHistory ==
    /\ \E f \in HistoryFiles : dir' = [dir EXCEPT !.history = f]
    /\ dir' # dir
    /\ EnvFrame

Next == Worker \/ TickerFire \/ WriteSummary \/ WriteTestCase

Spec == Init /\ [][Next]_vars

\* runs in which only the two optional files change
InitOptional == InitWith(NominalDir, "results")

NextOptional == Worker \/ TickerFire \/ WriteEnvironment \/ WriteHistory

SpecOptional == InitOptional /\ [][NextOptional]_vars

-----------------------------------------------------------------------------
(* The clock and the /health handler *)

\* thirty seconds pass: the clock advances by one ticker period and the ticker,
\* once created, sends a tick that is dropped if ticker.C is full
Tick ==
    /\ now < ProcessStart + MaxElapsed
    /\ now' = now + 1
    /\ tickerC' = IF tickerOn THEN 1 ELSE tickerC
    /\ UNCHANGED <<fsVars, sink, lastParseTime, schedPc, tickerOn, inFlight, pc, loc,
                   readerVars, hist>>

\* time.Since(lastParseTime)
Since(t) == now - t

\* healthCheck that already calls five minutes stale
healthCheckEager(since) ==
    IF since >= StaleThreshold
      THEN [code |-> StatusServiceUnavailable, body |-> "UNHEALTHY: " \o "Data is stale"]
      ELSE [code |-> StatusOK, body |-> "OK"]

\* healthCheck: status code and body for the elapsed time
healthCheck(since) ==
    IF since > StaleThreshold
      THEN [code |-> StatusServiceUnavailable, body |-> "UNHEALTHY: " \o "Data is stale"]
      ELSE [code |-> StatusOK, body |-> "OK"]

\* a GET /health is served; resp.n is the parity of the requests served.
\* The handler reads lastParseTime with no synchronisation while the worker's
\* deferred function may be writing it.  time.Since uses only the monotonic
\* reading of a time.Time that carries one, so a read torn between two values
\* answers as one of the two would; the read is therefore taken before or
\* after the write, and both orders are steps of the model.
HealthCheck ==
    /\ LET r == healthCheck(Since(lastParseTime)) IN
         resp' = [code |-> r.code, body |-> r.body, n |-> 1 - resp.n]
    /\ UNCHANGED <<fsVars, sink, lastParseTime, now, schedVars, inFlight, pc, loc,
                   scraped, hist>>

NoSummaryDir == [NominalDir EXCEPT !.summary = Missing]

InitSched == \E d \in {NominalDir, NoSummaryDir} : InitWith(d, "results")

NextSched == Worker \/ Tick \/ HealthCheck \/ WriteSummary

SpecSched == InitSched /\ [][NextSched]_vars

-----------------------------------------------------------------------------
(* The /metrics handler *)

\* a GET /metrics is served: promhttp gathers every registered family.  The
\* gather is taken as one step, the most a reader can hope for.
Scrape ==
    /\ scraped' = sink
    /\ hist' = [hist EXCEPT !.scrapePrev = hist.published, !.scrapePc = pc]
    /\ UNCHANGED <<fsVars, sink, lastParseTime, now, schedVars, inFlight, pc, loc, resp>>

InitRead == InitWith(NominalDir, "results")

NextRead == Worker \/ TickerFire \/ Scrape

SpecRead == InitRead /\ [][NextRead]_vars

-----------------------------------------------------------------------------
(* Runs over drawn inputs: the directory is drawn at the start and left alone *)

Counts == 0..MaxCount

\* summary.json files with every combination of small counts
SummaryInputs ==
    {Summary(p, f, b, s, d) : p \in Counts, f \in Counts, b \in Counts, s \in Counts,
                              d \in {0, 1500}}

\* status strings: the four outcomes, unknown, empty, and other spellings of passed
StatusInputs == {"passed", "failed", "broken", "skipped", "unknown", "", "Passed", "PASSED"}

LabelPool ==
    {Label("suite", "auth"), Label("Suite", "api"), Label("suite", "unknown"),
     Label("Severity", "critical"), Label("severity", "critical"),
     Label("severity", "minor"), Label("epic", "auth"), Label("random", "x")}

\* every label list of at most MaxLabels labels of the pool
LabelSeqs == UNION {[1..n -> LabelPool] : n \in 0..MaxLabels}

\* start and stop timestamps: the usual order, stop before start, and equal
TimeInputs == {<<1000, 13500>>, <<2000, 1000>>, <<500, 500>>}

\* test cases that differ from the nominal one in status, in labels or in timestamps
TestCaseInputs ==
    {[NominalTest EXCEPT !.status = st] : st \in StatusInputs}
    \cup {[NominalTest EXCEPT !.labels = ls] : ls \in LabelSeqs}
    \cup {[NominalTest EXCEPT !.start = t[1], !.stop = t[2]] : t \in TimeInputs}

\* history-trend.json: missing, undecodable, or at most MaxHistory failed counts
FailedCounts == {0, 1, 2}
HistoryInputs ==
    {Missing, Malformed}
    \cup {Ok(h) : h \in UNION {[1..n -> FailedCounts] : n \in 0..MaxHistory}}

\* environment.json: missing, undecodable, empty, or two entries
EnvInputs == {Missing, Malformed, Ok(<<>>), Ok([browser |-> "chrome", os |-> "linux"])}

\* a second test case with the name, status, suite and severity of NominalTest,
\* other timestamps and other steps
SameNameTest ==
    TestCase("login", "passed", 2000, 2500,
             <<Label("suite", "auth"), Label("Severity", "critical")>>,
             <<Step("open", "passed"), Step("retry", "passed")>>)

\* directories whose two test-case files hold test cases of one name
SameNameDirs ==
    {[NominalDir EXCEPT !.tests = [n \in DOMAIN NominalDir.tests |->
                                     IF n = "a.json" THEN Ok(x) ELSE Ok(y)]] :
        x \in {NominalTest, SameNameTest}, y \in {NominalTest, SameNameTest}}

InputDirs ==
    {[NominalDir EXCEPT !.summary = Ok(sm)] : sm \in SummaryInputs}
    \cup {[NominalDir EXCEPT !.tests["a.json"] = Ok(tc)] : tc \in TestCaseInputs}
    \cup {[NominalDir EXCEPT !.history = h] : h \in HistoryInputs}
    \cup {[NominalDir EXCEPT !.env = e] : e \in EnvInputs}
    \cup {[NominalDir EXCEPT !.summary = f] : f \in {Missing, Malformed}}
    \cup SameNameDirs

InitInputs == \E d \in InputDirs : InitWith(d, "results")

NextInputs == Worker \/ TickerFire

SpecInputs == InitInputs /\ [][NextInputs]_vars

-----------------------------------------------------------------------------
(* Properties *)

Range(f) == {f[x] : x \in DOMAIN f}

\* the label combinations a list of decoded test cases gives each per-test family
DurationKeys(tcs) ==
    {<<tcs[i].name, getLabelValue(tcs[i].labels, "suite")>> : i \in 1..Len(tcs)}
StatusKeys(tcs) ==
    {<<tcs[i].name, tcs[i].status, getLabelValue(tcs[i].labels, "severity")>> :
        i \in 1..Len(tcs)}
StepKeys(tcs) ==
    UNION {{<<tcs[i].name, st>> : st \in StepStatuses(tcs[i].steps)} : i \in 1..Len(tcs)}
TagKeys(tcs) ==
    UNION {{LabelKey(l) : l \in {x \in Range(tcs[i].labels) : isUsefulLabel(x.name)}} :
              i \in 1..Len(tcs)}

\* C1: a cycle whose Summary load fails returns with the registry exactly as it
\* was when the cycle started.
C1_AbortLeavesSinkIntact ==
    (pc = "defer" /\ loc.err /\ loc.summary = Nil) => sink = hist.atStart

\* C2: what a scrape returns is the registry as the previous successful cycle
\* left it, or the registry after every write of the cycle in flight.
C2_ReaderSeesCompleteSnapshot ==
    scraped = hist.scrapePrev \/ hist.scrapePc = "defer"

\* C3: when a cycle has finished, every label combination of a per-test family
\* comes from a test case that cycle loaded; nothing of a test case whose file
\* is gone is left.
C3_RemovedTestCaseDisappears ==
    pc = "defer" =>
        /\ DOMAIN sink.testDuration \subseteq DurationKeys(hist.loaded)
        /\ DOMAIN sink.testStatus \subseteq StatusKeys(hist.loaded)
        /\ DOMAIN sink.stepsTotal \subseteq StepKeys(hist.loaded)
        /\ DOMAIN sink.testsByLabel \subseteq TagKeys(hist.loaded)

\* a cycle has finished without a.json, which the cycle before had loaded and
\* published, and its label combination is gone
C3_Witness ==
    /\ pc = "defer"
    /\ "a.json" \in hist.prevFiles
    /\ "a.json" \notin Range(loc.testFiles)
    /\ "b.json" \in hist.curFiles
    /\ <<"login", "auth">> \in DOMAIN hist.atStart.testDuration
    /\ <<"login", "auth">> \notin DOMAIN sink.testDuration

\* C4: as long as no cycle has returned nil, /health answers unhealthy.
C4_UnhealthyUntilFirstSuccess ==
    ~hist.everSucceeded =>
        healthCheck(Since(lastParseTime)).code = StatusServiceUnavailable

\* C5: lastParseTime changes only on the return of a cycle that did not abort.
C5_OnlySuccessAdvancesLastParseTime ==
    [][lastParseTime' # lastParseTime => (pc = "defer" /\ ~loc.err)]_vars

\* C6: every answer of /health is 503 with a body "UNHEALTHY: <reason>" when more
\* than five minutes have passed since lastParseTime, and 200 "OK" otherwise.
C6_HealthAnswer ==
    [][resp'.n # resp.n =>
          IF now - lastParseTime > StaleThreshold
            THEN /\ resp'.code = StatusServiceUnavailable
                 /\ \E reason \in {"Data is stale"} : resp'.body = "UNHEALTHY: " \o reason
            ELSE /\ resp'.code = StatusOK
                 /\ resp'.body = "OK"]_vars

\* /health has answered 503 and lastParseTime, set by a cycle, is just past the
\* threshold
C6_Witness ==
    /\ resp.code = StatusServiceUnavailable
    /\ lastParseTime # ZeroTime
    /\ now - lastParseTime = StaleThreshold + 1

\* C7: the first cycle starts from runParser's entry, when no ticker exists and
\* no tick has been sent; the ticker is created only after that cycle has
\* returned, whatever it returned; every later cycle starts by taking a tick.
C7_FirstCycleImmediate ==
    /\ [](/\ ~hist.everStarted => (schedPc = "initial" /\ ~tickerOn /\ tickerC = 0)
          /\ schedPc = "initialParse" => (~tickerOn /\ tickerC = 0)
          /\ tickerOn => (hist.everStarted /\ schedPc \in {"waiting", "periodicParse"}))
    /\ [][inFlight' > inFlight =>
             IF hist.everStarted
               THEN schedPc = "waiting" /\ tickerC = 1 /\ tickerC' = 0
               ELSE schedPc = "initial" /\ schedPc' = "initialParse"]_vars

\* the first cycle aborted and a cycle started by a tick is running
C7_Witness ==
    /\ hist.lastAborted
    /\ ~hist.everSucceeded
    /\ schedPc = "periodicParse"
    /\ pc = "reset"

\* C8: at most one call of parseAllureReports is in flight, and runParser is
\* inside that call.
C8_SingleFlight ==
    /\ inFlight \in {0, 1}
    /\ inFlight = 1 <=> pc # "idle"
    /\ inFlight = 1 <=> schedPc \in {"initialParse", "periodicParse"}

\* a tick arrived while a periodic cycle has been running for a long time
C8_Witness ==
    /\ inFlight = 1
    /\ schedPc = "periodicParse"
    /\ tickerC = 1
    /\ now - lastParseTime > StaleThreshold
    /\ lastParseTime # ZeroTime

\* C9: when a cycle that decoded the Summary is finished, tests_total holds
\* exactly the four outcomes, each with the Summary's count.
C9_TestsTotalMatchesSummary ==
    (pc = "defer" /\ loc.summary # Nil) =>
        /\ DOMAIN sink.testsTotal = {<<"passed">>, <<"failed">>, <<"broken">>, <<"skipped">>}
        /\ sink.testsTotal[<<"passed">>] = <<loc.summary.data.passed, 1>>
        /\ sink.testsTotal[<<"failed">>] = <<loc.summary.data.failed, 1>>
        /\ sink.testsTotal[<<"broken">>] = <<loc.summary.data.broken, 1>>
        /\ sink.testsTotal[<<"skipped">>] = <<loc.summary.data.skipped, 1>>

\* a finished cycle whose Summary has different failed and broken counts
C9_Witness ==
    /\ pc = "defer"
    /\ loc.summary # Nil
    /\ loc.summary.data.failed # loc.summary.data.broken
    /\ sink.testsTotal[<<"failed">>] = <<1, 1>>
    /\ sink.testsTotal[<<"broken">>] = <<0, 1>>

\* C10: every test_status value is 1 when the status label is exactly "passed"
\* and 0 for any other status, and every test case a finished cycle loaded has
\* its value.
C10_StatusIndicator ==
    /\ \A key \in DOMAIN sink.testStatus :
          sink.testStatus[key] = IF key[2] = "passed" THEN <<1, 1>> ELSE <<0, 1>>
    /\ pc = "defer" => StatusKeys(hist.loaded) \subseteq DOMAIN sink.testStatus

\* a test case with status "Passed" is published with 0 next to one with 1
C10_Witness ==
    /\ pc = "defer"
    /\ \E key \in DOMAIN sink.testStatus :
          key[2] = "Passed" /\ sink.testStatus[key] = <<0, 1>>

\* the labels of the decoded test cases, as pairs <<test case, position>>
LabelPositions(tcs) ==
    UNION {{<<i, j>> : j \in 1..Len(tcs[i].labels)} : i \in 1..Len(tcs)}

\* how many labels of the test cases have a name that is `type` once lower-cased
\* and the value `value`
TagOccurrences(tcs, type, value) ==
    Cardinality({p \in LabelPositions(tcs) :
                    /\ ToLower(tcs[p[1]].labels[p[2]].name) = type
                    /\ tcs[p[1]].labels[p[2]].value = value})

\* C11: when a cycle has finished, every allow-listed label of a loaded test
\* case is counted under <<its name lower-cased, its value>>, together with
\* every other label of the cycle that has the same name up to letter case and
\* the same value.
C11_TagsKeyedByLowerCasedName ==
    (pc = "defer" /\ ~loc.err) =>
        \A p \in LabelPositions(hist.loaded) :
            LET l == hist.loaded[p[1]].labels[p[2]]
                key == <<ToLower(l.name), l.value>>
            IN  isUsefulLabel(l.name) =>
                   /\ key \in DOMAIN sink.testsByLabel
                   /\ sink.testsByLabel[key] =
                         <<TagOccurrences(hist.loaded, key[1], key[2]), 1>>

\* C12: every label_type of tests_by_label is, once lower-cased, one of epic,
\* feature, story, severity, owner, layer, and when a cycle has finished every
\* label combination is the name and value of a label of a test case it loaded.
C12_OnlyAllowListedTags ==
    \A key \in DOMAIN sink.testsByLabel :
        /\ ToLower(key[1]) \in {"epic", "feature", "story", "severity", "owner", "layer"}
        /\ pc = "defer" =>
              \E p \in LabelPositions(hist.loaded) :
                 hist.loaded[p[1]].labels[p[2]] = Label(key[1], key[2])

\* a finished cycle loaded a test case labelled random and suite next to an
\* allow-listed label; only the allow-listed one is in tests_by_label
C12_Witness ==
    /\ pc = "defer"
    /\ \E i \in 1..Len(hist.loaded) :
          hist.loaded[i].labels = <<Label("random", "x"), Label("severity", "minor")>>
    /\ <<"severity", "minor">> \in DOMAIN sink.testsByLabel
    /\ <<"random", "x">> \notin DOMAIN sink.testsByLabel

\* the positions of the labels whose name is `name` up to letter case
LabelMatches(labels, name) ==
    {i \in 1..Len(labels) : ToLower(labels[i].name) = ToLower(name)}

\* the suite published for the test case in hand, once test_duration_seconds
\* is written, and the severity, once test_status is written
PublishedSuites ==
    {key[2] : key \in {x \in DOMAIN sink.testDuration : x[1] = loc.tc.name}}
PublishedSeverities ==
    {key[3] : key \in {x \in DOMAIN sink.testStatus : x[1] = loc.tc.name}}

\* the value of the first matching label, for a list that has one
FirstMatchValue(labels, name) ==
    LET m == LabelMatches(labels, name)
        first == CHOOSE i \in m : \A j \in m : i <= j
    IN  labels[first].value

\* C13 as stated: the published suite and severity are the value of the first
\* label that matches up to letter case, and they are "unknown" exactly when no
\* label matches.
C13_UnknownOnlyWhenAbsent ==
    /\ pc = "tcStatus" =>
          \A v \in PublishedSuites :
              LET m == LabelMatches(loc.tc.labels, "suite") IN
              /\ m # {} => v = FirstMatchValue(loc.tc.labels, "suite")
              /\ v = "unknown" <=> m = {}
    /\ pc = "tcSteps" =>
          \A v \in PublishedSeverities :
              LET m == LabelMatches(loc.tc.labels, "severity") IN
              /\ m # {} => v = FirstMatchValue(loc.tc.labels, "severity")
              /\ v = "unknown" <=> m = {}

\* C13, amended: the published suite and severity are the value of the first
\* label that matches up to letter case, and "unknown" when no label matches;
\* they are "unknown" only when no label matches or the first match's value is
\* itself "unknown".
C13_FirstMatchOrUnknown ==
    /\ pc = "tcStatus" =>
          /\ PublishedSuites # {}
          /\ \A v \in PublishedSuites :
                LET m == LabelMatches(loc.tc.labels, "suite") IN
                /\ m # {} => v = FirstMatchValue(loc.tc.labels, "suite")
                /\ m = {} => v = "unknown"
    /\ pc = "tcSteps" =>
          /\ PublishedSeverities # {}
          /\ \A v \in PublishedSeverities :
                LET m == LabelMatches(loc.tc.labels, "severity") IN
                /\ m # {} => v = FirstMatchValue(loc.tc.labels, "severity")
                /\ m = {} => v = "unknown"

\* a test case with two suite labels in different spellings: the first is published
C13_Witness ==
    /\ pc = "tcStatus"
    /\ loc.tc.labels = <<Label("Suite", "api"), Label("suite", "auth")>>
    /\ PublishedSuites = {"api"}

\* C14: with the directory left alone, a cycle that follows another ends with
\* the registry exactly as the one before left it: same families, same label
\* combinations, same values.
C14_UnchangedDirectorySameSink ==
    (pc = "defer" /\ schedPc = "periodicParse") => sink = hist.atStart

\* a second cycle has finished with a tag carried by both test cases counted twice
C14_Witness ==
    /\ pc = "defer"
    /\ schedPc = "periodicParse"
    /\ ~loc.err
    /\ <<"epic", "auth">> \in DOMAIN sink.testsByLabel
    /\ sink.testsByLabel[<<"epic", "auth">>] = <<2, 1>>
    /\ sink.flakyRatio = <<2, 3>>

\* C15: no value of test_duration_seconds is negative.
C15_DurationNeverNegative ==
    \A key \in DOMAIN sink.testDuration : sink.testDuration[key][1] >= 0

\* the build identifiers, by index counted from 0
BuildNames == <<"build_0", "build_1", "build_2", "build_3", "build_4">>

\* C16: when a cycle that decoded a history of n >= 1 points has finished, the
\* flaky ratio is (number of points with failed > 0) / n, within [0, 1], and
\* history_failed_tests holds exactly build_0 .. build_(n-1), the i-th with the
\* i-th point's failed count.
C16_FlakyRatioAndHistory ==
    (pc = "defer" /\ hist.sawHistory = "present") =>
        LET h == dir.history.data
            n == Len(h)
            flaky == Cardinality({i \in 1..n : h[i] > 0})
            v == sink.flakyRatio
        IN  /\ n >= 1
            /\ v[2] > 0
            /\ v[1] * n = flaky * v[2]
            /\ 0 <= v[1] /\ v[1] <= v[2]
            /\ DOMAIN sink.historyTrend = {<<BuildNames[i]>> : i \in 1..n}
            /\ \A i \in 1..n : sink.historyTrend[<<BuildNames[i]>>] = <<h[i], 1>>

\* a finished cycle over the history 2, 0: ratio 1/2, build_1 holds 0
C16_Witness ==
    /\ pc = "defer"
    /\ hist.sawHistory = "present"
    /\ dir.history.data = <<2, 0>>
    /\ sink.flakyRatio = <<1, 2>>
    /\ sink.historyTrend[<<"build_1">>] = <<0, 1>>

\* C17: a cycle that finds history-trend.json missing, undecodable or empty
\* writes neither flaky_tests_ratio nor history_failed_tests: when it has
\* finished, the ratio is what it was when the cycle began, history_failed_tests
\* is empty, and the cycle returns no error.
C17_NoHistoryLeavesFlakyRatio ==
    /\ []((pc = "defer" /\ hist.sawHistory = "absent") =>
             /\ sink.flakyRatio = hist.atStart.flakyRatio
             /\ sink.historyTrend = EmptyVec
             /\ ~loc.err)
    /\ [][hist'.sawHistory = "absent" =>
             /\ sink'.flakyRatio = sink.flakyRatio
             /\ sink'.historyTrend = sink.historyTrend]_vars

\* a cycle that found an empty history has finished and the ratio of an earlier
\* cycle, 2/3, is still there
C17_Witness ==
    /\ pc = "defer"
    /\ ~loc.err
    /\ hist.sawHistory = "absent"
    /\ dir.history = Ok(<<>>)
    /\ hist.atStart.historyTrend # EmptyVec
    /\ sink.flakyRatio = <<2, 3>>

\* updateTestCaseMetrics as one function of the registry: what the steps
\* TestDuration, TestStatus, TestSteps and TestLabels do for one test case
RECURSIVE CountLabels(_, _)
CountLabels(vec, labels) ==
    IF labels = <<>> THEN vec
    ELSE CountLabels(IF isUsefulLabel(Head(labels).name)
                       THEN IncVec(vec, LabelKey(Head(labels)))
                       ELSE vec,
                     Tail(labels))

CountSteps(vec, tc) ==
    LET keys == {<<tc.name, st>> : st \in StepStatuses(tc.steps)} IN
    [x \in (DOMAIN vec) \cup keys |->
        IF x \in keys THEN Float(StepsByStatus(tc.steps)[x[2]]) ELSE vec[x]]

updateTestCaseMetrics(s, tc) ==
    [s EXCEPT
       !.testDuration = SetVec(@, <<tc.name, getLabelValue(tc.labels, "suite")>>, Duration(tc)),
       !.testStatus = SetVec(@, <<tc.name, tc.status, getLabelValue(tc.labels, "severity")>>,
                             StatusValue(tc.status)),
       !.stepsTotal = CountSteps(@, tc),
       !.testsByLabel = CountLabels(@, tc.labels)]

\* the test cases of a list, one after the other, on a registry
RECURSIVE UpdateAll(_, _)
UpdateAll(s, tcs) ==
    IF tcs = <<>> THEN s ELSE UpdateAll(updateTestCaseMetrics(s, Head(tcs)), Tail(tcs))

\* C18: a cycle that decoded the Summary and enumerated the files returns no
\* error whichever files failed to load, and when it has finished the four
\* per-test families are what the files that did load give on their own: a
\* file that failed adds nothing and takes nothing away.
C18_FailedFilesSkipped ==
    (pc = "defer" /\ loc.summary # Nil /\ ~GlobFails(path)) =>
        LET want == UpdateAll(EmptySink, hist.loaded) IN
        /\ ~loc.err
        /\ hist.curFiles \subseteq Range(loc.testFiles)
        /\ Len(hist.loaded) = Cardinality(hist.curFiles)
        /\ sink.testDuration = want.testDuration
        /\ sink.testStatus = want.testStatus
        /\ sink.stepsTotal = want.stepsTotal
        /\ sink.testsByLabel = want.testsByLabel

\* a cycle has finished in which a.json was enumerated and failed to decode,
\* and b.json, after it, was loaded and published
C18_Witness ==
    /\ pc = "defer"
    /\ ~loc.err
    /\ dir.tests["a.json"] = Malformed
    /\ loc.testFiles = <<"a.json", "b.json">>
    /\ hist.curFiles = {"b.json"}
    /\ DOMAIN sink.testDuration = {<<"logout", "unknown">>}
    /\ sink.testsByLabel = SetVec(EmptyVec, <<"epic", "auth">>, <<1, 1>>)

\* C19: when the environment file is missing or does not decode, the cycle goes
\* on to the Summary, and from then until the cycle has finished
\* environment_info has no entry, whatever earlier cycles published; the
\* cycle ends without error with the Summary, the History step and every test
\* case done as usual.
C19_NoEnvironmentCycleContinues ==
    /\ [](hist.sawEnv = "absent" => sink.environmentInfo = EmptyVec)
    /\ []((pc = "defer" /\ hist.sawEnv = "absent") =>
             /\ ~loc.err
             /\ loc.summary # Nil
             /\ sink.testsTotal # EmptyVec
             /\ hist.sawHistory # "unread"
             /\ hist.curFiles = Range(loc.testFiles)
             /\ sink.testDuration = UpdateAll(EmptySink, hist.loaded).testDuration)
    /\ [][(pc = "env" /\ ReadFails(dir.env) /\ pc' # pc) => pc' = "summary"]_vars

\* a cycle has finished without an environment file after an earlier cycle had
\* published environment entries
C19_Witness ==
    /\ pc = "defer"
    /\ ~loc.err
    /\ hist.sawEnv = "absent"
    /\ dir.env = Missing
    /\ hist.atStart.environmentInfo # EmptyVec
    /\ sink.environmentInfo = EmptyVec
    /\ hist.curFiles = {"a.json", "b.json"}

\* how many of the test cases carry the label <<name, value>>, each test case
\* counted once however often it carries it
TestsCarrying(tcs, name, value) ==
    Cardinality({i \in 1..Len(tcs) :
                    \E j \in 1..Len(tcs[i].labels) : tcs[i].labels[j] = Label(name, value)})

\* C20: when a cycle has finished, tests_by_label holds, for every label name
\* of the allow-list and every value, the number of test cases loaded in the
\* cycle that carry that label, a test case that carries it twice being
\* counted once; a pair no loaded test case carries has no entry.
C20_TagCountsTestCases ==
    (pc = "defer" /\ ~loc.err) =>
        /\ \A key \in DOMAIN sink.testsByLabel :
              sink.testsByLabel[key] = <<TestsCarrying(hist.loaded, key[1], key[2]), 1>>
        /\ \A p \in LabelPositions(hist.loaded) :
              LET l == hist.loaded[p[1]].labels[p[2]] IN
              isUsefulLabel(l.name) => LabelKey(l) \in DOMAIN sink.testsByLabel

\* every input of the running cycle has been read: the environment, the
\* Summary, the history, the enumeration of line 240 and every file it listed
InputsLoaded ==
    /\ hist.sawEnv # "unread"
    /\ loc.summary # Nil
    /\ hist.sawHistory # "unread"
    /\ pc \in {"tcRead", "tcDuration", "tcStatus", "tcSteps", "tcLabels"}
    /\ IF pc = "tcRead" THEN loc.k > Len(loc.testFiles) ELSE loc.k >= Len(loc.testFiles)

\* C21: within a cycle no step changes the registry before every input of the
\* cycle has been read, and a cycle whose enumeration of the test-case files
\* failed ends with the registry as it was when the cycle began.
C21_SinkWrittenAfterAllInputs ==
    /\ [][sink' # sink => InputsLoaded]_vars
    /\ []((pc = "defer" /\ loc.summary # Nil /\ GlobFails(path)) => sink = hist.atStart)

\* the worker and its ticker with the report directory's Summary coming and
\* going, so that cycles succeed and abort; the goroutine is scheduled fairly
\* and the runtime keeps delivering ticks
InitLive == \E d \in {NominalDir, NoSummaryDir} : InitWith(d, "results")

NextLive == Worker \/ TickerFire \/ WriteSummary

SpecLive == InitLive /\ [][NextLive]_vars /\ WF_vars(Worker) /\ WF_vars(TickerFire)

\* C22: runParser never leaves its loop and its ticker is never stopped; after
\* a cycle has finished, with or without error, another cycle starts; an
\* error ends the cycle at once, a finished cycle only returns, and every
\* cycle after the first starts by taking a tick from the ticker.
C22_SchedulerKeepsScheduling ==
    /\ [](schedPc \in {"initial", "initialParse", "newTicker", "waiting", "periodicParse"})
    /\ [][tickerOn => tickerOn']_vars
    /\ (pc = "defer" /\ loc.err) ~> (pc = "reset")
    /\ (pc = "defer" /\ ~loc.err) ~> (pc = "reset")
    /\ [][(~loc.err /\ loc'.err) => pc' = "defer"]_vars
    /\ [][pc = "defer" => pc' \in {"defer", "idle"}]_vars
    /\ [][(pc = "idle" /\ pc' # "idle" /\ hist.everStarted) =>
             /\ pc' = "reset"
             /\ schedPc = "waiting"
             /\ tickerC = 1
             /\ tickerC' = 0]_vars

\* a periodic cycle has started after a cycle that aborted, in a run where an
\* earlier cycle had succeeded
C22_Witness ==
    /\ pc = "reset"
    /\ schedPc = "periodicParse"
    /\ hist.lastAborted
    /\ hist.everSucceeded
    /\ tickerC = 0

\* the test cases of a list that write the given label combination, and the
\* last of a non-empty set of positions
DurationWriters(tcs, key) ==
    {i \in 1..Len(tcs) : <<tcs[i].name, getLabelValue(tcs[i].labels, "suite")>> = key}
StatusWriters(tcs, key) ==
    {i \in 1..Len(tcs) :
        <<tcs[i].name, tcs[i].status, getLabelValue(tcs[i].labels, "severity")>> = key}
StepWriters(tcs, key) ==
    {i \in 1..Len(tcs) : tcs[i].name = key[1] /\ key[2] \in StepStatuses(tcs[i].steps)}
Last(S) == CHOOSE i \in S : \A j \in S : j <= i

\* how many labels of the test cases are exactly <<name, value>>
LabelOccurrences(tcs, key) ==
    Cardinality({p \in LabelPositions(tcs) : LabelKey(tcs[p[1]].labels[p[2]]) = key})

\* C23: when a cycle has finished, every label combination of
\* test_duration_seconds, test_status and test_steps_total holds the value of
\* the last loaded test case, in the order of the enumeration, that produces
\* it, and every tests_by_label combination holds the sum of what each loaded
\* test case contributes to it.
C23_LastWriterWinsTagsAdd ==
    (pc = "defer" /\ ~loc.err) =>
        LET tcs == hist.loaded IN
        /\ \A key \in DurationKeys(tcs) :
              /\ key \in DOMAIN sink.testDuration
              /\ sink.testDuration[key] = Duration(tcs[Last(DurationWriters(tcs, key))])
        /\ \A key \in StatusKeys(tcs) :
              /\ key \in DOMAIN sink.testStatus
              /\ sink.testStatus[key] = StatusValue(tcs[Last(StatusWriters(tcs, key))].status)
        /\ \A key \in StepKeys(tcs) :
              /\ key \in DOMAIN sink.stepsTotal
              /\ sink.stepsTotal[key] =
                    Float(StepsByStatus(tcs[Last(StepWriters(tcs, key))].steps)[key[2]])
        /\ \A key \in TagKeys(tcs) :
              /\ key \in DOMAIN sink.testsByLabel
              /\ sink.testsByLabel[key] = Float(LabelOccurrences(tcs, key))

\* a cycle has finished over two test cases named login with suite auth: the
\* duration and the passed steps are the second one's, the failed steps the
\* first one's, and the tag both carry is counted twice
C23_Witness ==
    /\ pc = "defer"
    /\ ~loc.err
    /\ hist.loaded = <<NominalTest, SameNameTest>>
    /\ loc.testFiles = <<"a.json", "b.json">>
    /\ sink.testDuration = SetVec(EmptyVec, <<"login", "auth">>, <<1, 2>>)
    /\ sink.testStatus = SetVec(EmptyVec, <<"login", "passed", "critical">>, <<1, 1>>)
    /\ sink.stepsTotal[<<"login", "passed">>] = <<2, 1>>
    /\ sink.stepsTotal[<<"login", "failed">>] = <<1, 1>>
    /\ sink.testsByLabel = SetVec(EmptyVec, <<"Severity", "critical">>, <<2, 1>>)

====
